---- MODULE Spec2Model ----
(***************************************************************************)
(* A model of SensePOLAR's two components:                                 *)
(*   - Dictionary (sensepolar/oracle/dictionaryapi.py), the lexical oracle *)
(*   - ALBERTWordEmbeddings (sensepolar/embed/albertEmbed.py)              *)
(* Spec checks the oracle, SpecEmbed the embedder.                         *)
(***************************************************************************)
EXTENDS Integers, Sequences, FiniteSets, TLC

VARIABLES
    phase,          \* "new" | "failed" | "ready": the Dictionary object's life
    ctor_arg,       \* the dictionary_id handed to the constructor
    ctor_exc,       \* what the constructor raised ("none" if nothing)
    dictionary_id,  \* self.dictionary_id
    urls,           \* self.urls: url type -> url template
    pc,             \* position of the running query
    call,           \* [op, word] of the running query
    synsets,        \* what wordnet.synsets(word) gave the running query
    url,            \* the url handed to _make_request
    status,         \* status code of the response received (0: none yet)
    response,       \* what _make_request returned
    ret,            \* [exc, val]: what the query raised or returned
    nreq,           \* requests.get calls made by the running query
    \* ALBERTWordEmbeddings (SpecEmbed)
    sentence,       \* get_word_embedding's sentence, a sequence of characters
    target,         \* get_word_embedding's word, a sequence of characters
    layer,          \* self.layer
    avg_layers,     \* self.avg_layers
    word_ids,       \* encoded.word_ids(), what the tokenizer gives for sentence
    numpy,          \* the numpy that ran np.where: "old" | "new" ("unused": none)
    epc,            \* position of the get_word_embedding call
    idx,            \* the local idx
    token_ids_word, \* the local token_ids_word, a sequence of positions
    nfwd,           \* forward passes of the model run by the call
    eret            \* [exc, val]: what get_word_embedding raised or returned

vars == <<phase, ctor_arg, ctor_exc, dictionary_id, urls, pc, call, synsets,
          url, status, response, ret, nreq, sentence, target, layer,
          avg_layers, word_ids, numpy, epc, idx, token_ids_word, nfwd, eret>>

oracleVars == <<phase, ctor_arg, ctor_exc, dictionary_id, urls, pc, call,
                synsets, url, status, response, ret, nreq>>

embedVars == <<sentence, target, layer, avg_layers, word_ids, numpy, epc, idx,
               token_ids_word, nfwd, eret>>

-----------------------------------------------------------------------------
(* Python values.  A value is a record tagged with its type:               *)
(*   str  [t |-> "str",  v |-> a string]                                   *)
(*   list [t |-> "list", v |-> a sequence of values]                       *)
(*   dict [t |-> "dict", v |-> a sequence of <<key, value>> pairs]         *)
(*   None [t |-> "null"]                                                   *)

S(s) == [t |-> "str", v |-> s]
L(seq) == [t |-> "list", v |-> seq]
D(pairs) == [t |-> "dict", v |-> pairs]
None == [t |-> "null"]

\* The outcome of evaluating Python code: a value, or the exception raised.
Ok(v) == [exc |-> "none", val |-> v]
Raise(e) == [exc |-> e, val |-> None]

HasKey(d, k) == \E i \in 1..Len(d.v) : d.v[i][1] = k
Lookup(d, k) == d.v[CHOOSE i \in 1..Len(d.v) : d.v[i][1] = k][2]

\* bool(x)
Truthy(x) ==
    CASE x.t = "null" -> FALSE
      [] x.t = "str" -> x.v # ""
      [] OTHER -> Len(x.v) > 0

\* x.get(k, default); only a dict has .get
PyGet(x, k, default) ==
    IF x.t = "dict"
    THEN Ok(IF HasKey(x, k) THEN Lookup(x, k) ELSE default)
    ELSE Raise("AttributeError")

\* x.keys(); only a dict has .keys
PyKeys(x) ==
    IF x.t = "dict" THEN Ok(x) ELSE Raise("AttributeError")

\* x[k] for a string key k
PyItem(x, k) ==
    CASE x.t = "dict" -> IF HasKey(x, k) THEN Ok(Lookup(x, k)) ELSE Raise("KeyError")
      [] OTHER -> Raise("TypeError")

\* x[0]
PyFirst(x) ==
    CASE x.t = "list" -> IF Len(x.v) > 0 THEN Ok(x.v[1]) ELSE Raise("IndexError")
      [] x.t = "str" -> IF x.v # "" THEN Ok(x) ELSE Raise("IndexError")
      [] x.t = "dict" -> Raise("KeyError")
      [] OTHER -> Raise("TypeError")

\* k in x, for a string k.  (The strings of the model have at most one
\* character where they are searched or iterated, so a string's only
\* substring and only element is itself.)
PyIn(k, x) ==
    CASE x.t = "dict" -> Ok(HasKey(x, k))
      [] x.t = "list" -> Ok(\E i \in 1..Len(x.v) : x.v[i].t = "str" /\ x.v[i].v = k)
      [] x.t = "str" -> Ok(x.v = k)
      [] OTHER -> Raise("TypeError")

\* the items `for item in x` visits
PyIter(x) ==
    CASE x.t = "list" -> Ok(x.v)
      [] x.t = "dict" -> Ok([i \in 1..Len(x.v) |-> S(x.v[i][1])])
      [] x.t = "str" -> Ok(IF x.v = "" THEN <<>> ELSE <<x>>)
      [] OTHER -> Raise("TypeError")

\* acc = init; for item in items: acc = Body(acc, item) -- the first exception
\* ends the loop and is the outcome.
ForEach(Body(_, _), items, init) ==
    LET f[i \in 0..Len(items)] ==
            IF i = 0 THEN Ok(init)
            ELSE IF f[i - 1].exc # "none" THEN f[i - 1]
            ELSE Body(f[i - 1].val, items[i])
    IN  f[Len(items)]

\* for item in x: ... over a Python value x
ForEachIn(Body(_, _), x, init) ==
    LET it == PyIter(x)
    IN  IF it.exc # "none" THEN it ELSE ForEach(Body, it.val, init)

\* r's value handed to F, or r's exception
Bind(r, F(_)) == IF r.exc # "none" THEN r ELSE F(r.val)

-----------------------------------------------------------------------------
(* The parsers of the remote backends' JSON bodies.                        *)

\* get_examples / get_definitions, 'dictionaryapi': what one definitions[]
\* entry with a truthy example appends.
DictionaryApiAppend(mode, acc, definition, example_uses) ==
    IF mode = "examples"
    THEN Ok(Append(acc, example_uses))
    ELSE Bind(PyGet(definition, "definition", None),
              LAMBDA d : Ok(Append(acc, L(<<d>>))))

\* Mutant of DictionaryApiDefinition: the `if example_uses:` test left out.
DictionaryApiDefinition_unfiltered(mode, acc, definition) ==
    Bind(PyGet(definition, "example", None),
         LAMBDA example_uses :
            DictionaryApiAppend(mode, acc, definition, example_uses))

\* get_examples / get_definitions, 'dictionaryapi': one definitions[] entry
DictionaryApiDefinition(mode, acc, definition) ==
    Bind(PyGet(definition, "example", None),
         LAMBDA example_uses :
            IF Truthy(example_uses)
            THEN DictionaryApiAppend(mode, acc, definition, example_uses)
            ELSE Ok(acc))

\* get_examples / get_definitions, 'dictionaryapi': the whole body
ParseDictionaryApi(mode, resp) ==
    LET entries == IF resp.t = "list" THEN resp.v ELSE <<resp>>
        PerDefinition(acc, definition) == DictionaryApiDefinition(mode, acc, definition)
        PerMeaning(acc, meaning) ==
            Bind(PyGet(meaning, "definitions", L(<<>>)),
                 LAMBDA definitions :
                    IF Truthy(definitions)
                    THEN ForEachIn(PerDefinition, definitions, acc)
                    ELSE Ok(acc))
        PerEntry(acc, entry) ==
            Bind(PyGet(entry, "meanings", L(<<>>)),
                 LAMBDA meanings : ForEachIn(PerMeaning, meanings, acc))
    IN  Bind(ForEach(PerEntry, entries, <<>>), LAMBDA all : Ok(L(all)))

\* get_examples, 'wordnik': examples = [example['text'] for example in
\* entry['exampleUses'] if 'text' in example.keys()]
WordnikExampleUses(entry) ==
    LET PerExample(acc, example) ==
            Bind(PyKeys(example),
                 LAMBDA ks : IF HasKey(ks, "text")
                             THEN Ok(Append(acc, Lookup(ks, "text")))
                             ELSE Ok(acc))
    IN  Bind(PyItem(entry, "exampleUses"),
             LAMBDA uses : ForEachIn(PerExample, uses, <<>>))

\* get_examples, 'wordnik'
ParseWordnikExamples(resp) ==
    LET PerEntry(acc, entry) ==
            Bind(PyKeys(entry),
                 LAMBDA ks :
                    IF HasKey(ks, "text")
                    THEN Bind(WordnikExampleUses(entry),
                              LAMBDA examples : Ok(Append(acc, L(examples))))
                    ELSE Ok(acc))
    IN  Bind(ForEachIn(PerEntry, resp, <<>>), LAMBDA all : Ok(L(all)))

\* get_definitions, 'wordnik'
ParseWordnikDefinitions(resp) ==
    LET PerExample(acc, example) ==
            Bind(PyItem(example, "text"),
                 LAMBDA tx : IF Truthy(tx) THEN Ok(Append(acc, tx)) ELSE Ok(acc))
        PerEntry(acc, entry) ==
            Bind(PyKeys(entry),
                 LAMBDA ks :
                    IF HasKey(ks, "text")
                    THEN Bind(ForEachIn(PerExample,
                                        PyGet(entry, "exampleUses", L(<<>>)).val, <<>>),
                              LAMBDA examples :
                                 Ok(Append(acc, L(<<Lookup(entry, "text")>>))))
                    ELSE Ok(acc))
    IN  Bind(ForEachIn(PerEntry, resp, <<>>), LAMBDA all : Ok(L(all)))

\* if k in x: for item in x[k]: acc = Body(acc, item)
ForEachUnder(Body(_, _), x, k, acc) ==
    Bind(PyIn(k, x),
         LAMBDA has :
            IF has
            THEN Bind(PyItem(x, k), LAMBDA items : ForEachIn(Body, items, acc))
            ELSE Ok(acc))

\* get_examples, 'oxford'
ParseOxfordExamples(resp) ==
    LET PerSentence(acc, sent) ==
            Bind(PyIn("text", sent),
                 LAMBDA has :
                    IF has
                    THEN Bind(PyItem(sent, "text"), LAMBDA tx : Ok(Append(acc, tx)))
                    ELSE Ok(acc))
        PerEntry(acc, entry) == ForEachUnder(PerSentence, entry, "sentences", acc)
        PerResult(acc, result) == ForEachUnder(PerEntry, result, "lexicalEntries", acc)
    IN  IF ~Truthy(resp) THEN Ok(L(<<>>))
        ELSE Bind(ForEachUnder(PerResult, resp, "results", <<>>),
                  LAMBDA all : Ok(L(all)))

\* get_definitions, 'oxford': the senses and definitions are gathered into
\* locals, all_definitions is never appended to.
ParseOxfordDefinitions(resp) ==
    LET Extend(acc, more) == Bind(PyIter(more), LAMBDA items : Ok(acc \o items))
        PerEntry(senses, entry) ==
            Bind(PyGet(entry, "entries", L(<<D(<<>>)>>)),
                 LAMBDA es : Bind(PyFirst(es),
                 LAMBDA e0 : Bind(PyGet(e0, "senses", L(<<>>)),
                 LAMBDA ss : Extend(senses, ss))))
        PerSense(definitions, sense) ==
            Bind(PyGet(sense, "definitions", L(<<>>)),
                 LAMBDA ds : Extend(definitions, ds))
    IN  Bind(PyGet(resp, "results", L(<<D(<<>>)>>)),
             LAMBDA rs : Bind(PyFirst(rs),
             LAMBDA r0 : Bind(PyGet(r0, "lexicalEntries", L(<<>>)),
             LAMBDA entries : Bind(ForEachIn(PerEntry, entries, <<>>),
             LAMBDA senses : Bind(ForEach(PerSense, senses, <<>>),
             LAMBDA definitions : Ok(L(<<>>)))))))

\* x.get(k, [])[0]
GetFirst(x, k) == Bind(PyGet(x, k, L(<<>>)), LAMBDA v : PyFirst(v))

\* get_synonyms, the remote backends, once a response is in
ParseSynonyms(id, resp) ==
    IF ~Truthy(resp) THEN Ok(None)
    ELSE CASE id = "dictionaryapi" ->
                Bind(PyFirst(resp),
                     LAMBDA r0 : Bind(PyGet(r0, "meta", D(<<>>)),
                     LAMBDA meta : GetFirst(meta, "syns")))
           [] id = "oxford" ->
                Bind(GetFirst(resp, "results"),
                     LAMBDA r0 : Bind(GetFirst(r0, "lexicalEntries"),
                     LAMBDA le : Bind(GetFirst(le, "entries"),
                     LAMBDA en : Bind(GetFirst(en, "senses"),
                     LAMBDA se : Bind(PyGet(se, "synonyms", L(<<>>)),
                     LAMBDA synonyms :
                        Bind(ForEachIn(LAMBDA acc, synonym :
                                          Bind(PyGet(synonym, "text", None),
                                               LAMBDA tx : Ok(Append(acc, tx))),
                                       synonyms, <<>>),
                             LAMBDA all : Ok(L(all))))))))
           [] id = "wordnik" ->
                Bind(PyFirst(resp), LAMBDA r0 : PyGet(r0, "words", L(<<>>)))
           [] OTHER -> Raise("UnboundLocalError")

-----------------------------------------------------------------------------
(* The local backend: what nltk's wordnet.synsets(word) gives is a sequence *)
(* of synsets, each [definition, examples, lemmas], a lemma being          *)
(* [name, antonyms].                                                       *)

\* lemma.name().replace('_', ' '), over the lemma names of the model
ReplaceUnderscore(name) ==
    IF name = "domestic_dog" THEN "domestic dog" ELSE name

Strs(seq) == L([i \in 1..Len(seq) |-> S(seq[i])])

\* get_examples, 'wordnet'
WordnetExamples(ss) ==
    Ok(L([i \in 1..Len(ss) |-> Strs(ss[i].examples)]))

\* Mutant of KeepsDefinition: the filter on examples left out, as it is in
\* get_examples.
KeepsDefinition_all(synset) == TRUE

\* get_definitions, 'wordnet': does this synset get an entry
KeepsDefinition(synset) == Len(synset.examples) # 0

\* get_definitions, 'wordnet'
WordnetDefinitions(ss) ==
    ForEach(LAMBDA acc, synset :
                IF KeepsDefinition(synset)
                THEN Ok(L(Append(acc.v, L(<<S(synset.definition)>>))))
                ELSE Ok(acc),
            ss, L(<<>>))

\* get_synonyms, 'wordnet'
WordnetSynonyms(ss, word) ==
    ForEach(LAMBDA acc, synset :
                ForEach(LAMBDA acc2, lemma :
                            LET synonym == ReplaceUnderscore(lemma.name)
                            IN  IF synonym # word
                                THEN Ok(L(Append(acc2.v, S(synonym))))
                                ELSE Ok(acc2),
                        synset.lemmas, acc),
            ss, L(<<>>))

\* get_antonyms, 'wordnet': the antonyms list built by the loops
WordnetAntonymNames(ss) ==
    ForEach(LAMBDA acc, synset :
                ForEach(LAMBDA acc2, lemma :
                            IF Len(lemma.antonyms) > 0
                            THEN Ok(L(acc2.v \o Strs(lemma.antonyms).v))
                            ELSE Ok(acc2),
                        synset.lemmas, acc),
            ss, L(<<>>)).val

\* get_antonyms: the remote branch is guarded by `response = None; if
\* response:` and never runs, so every path that is not a non-empty wordnet
\* list ends in `return None`.
Antonyms(id, ss) ==
    IF id = "wordnet" /\ Truthy(WordnetAntonymNames(ss))
    THEN Ok(WordnetAntonymNames(ss))
    ELSE Ok(None)

-----------------------------------------------------------------------------
(* Inputs.                                                                 *)

MaxSenses == 2      \* synsets a word has at most
MaxDefs == 2        \* definitions[] entries of a generated meaning

SupportedIds == {"dictionaryapi", "oxford", "wordnik", "wordnet"}
RemoteIds == {"dictionaryapi", "oxford", "wordnik"}
BackendIds == SupportedIds \cup {"merriam", ""}
Words == {"dog", "good"}
Statuses == {200, 404, 500}

SeqsUpTo(X, n) == UNION {[1..k -> X] : k \in 0..n}

SynsetKinds ==
    { [definition |-> "d1", examples |-> <<>>,
       lemmas |-> <<[name |-> "dog", antonyms |-> <<>>]>>],
      [definition |-> "d2", examples |-> <<"e1">>,
       lemmas |-> <<[name |-> "domestic_dog", antonyms |-> <<"cat">>]>>],
      [definition |-> "d3", examples |-> <<"e2", "e3">>,
       lemmas |-> <<[name |-> "good", antonyms |-> <<"bad", "evil">>],
                    [name |-> "dog", antonyms |-> <<>>]>>] }

SynsetLists == SeqsUpTo(SynsetKinds, MaxSenses)

\* The definitions[] entries of the remote-basic bodies that are generated.
DefKinds ==
    { D(<< <<"definition", S("a domestic animal")>>, <<"example", S("the dog barked")>> >>),
      D(<< <<"definition", S("to follow")>> >>),
      D(<< <<"definition", S("a fellow")>>, <<"example", S("")>> >>),
      D(<< <<"example", S("lucky dog")>> >>) }

FixedMeaning ==
    D(<< <<"partOfSpeech", S("noun")>>,
         <<"definitions", L(<< D(<< <<"definition", S("first")>>, <<"example", S("first use")>> >>) >>)>> >>)

Meaning(defs) == D(<< <<"definitions", L(defs)>> >>)
Entry(meanings) == D(<< <<"word", S("dog")>>, <<"meanings", L(meanings)>> >>)
SpecBody ==
    D(<< <<"meanings", L(<< Meaning(<< D(<< <<"definition", S("a domestic animal")>>,
                                             <<"example", S("the dog barked")>> >>) >>) >>)>> >>)

\* Well-formed remote-basic bodies: one entry, alone or in a list, and lists
\* of two entries.
BasicEntries ==
    {SpecBody}
    \cup {Entry(<<Meaning(ds)>>) : ds \in SeqsUpTo(DefKinds, MaxDefs)}
    \cup {Entry(<<FixedMeaning, Meaning(ds)>>) : ds \in SeqsUpTo(DefKinds, MaxDefs)}
    \cup {Entry(<<Meaning(ds), FixedMeaning>>) : ds \in SeqsUpTo(DefKinds, MaxDefs)}
BasicBodies ==
    BasicEntries
    \cup {L(<<e>>) : e \in BasicEntries}
    \cup {L(<<e, SpecBody>>) : e \in BasicEntries}
    \cup {L(<<Entry(<<FixedMeaning>>), e>>) : e \in BasicEntries}

\* Bodies of the other backends, well-formed and not.
OtherBodies ==
    { L(<< D(<< <<"text", S("a def")>>,
                <<"exampleUses", L(<< D(<< <<"text", S("a use")>> >>), D(<<>>) >>)>> >>) >>),
      L(<< D(<< <<"text", S("a def")>> >>) >>),
      L(<< D(<< <<"text", S("a def")>>, <<"exampleUses", L(<< D(<<>>) >>)>> >>) >>),
      L(<< D(<< <<"word", S("dog")>> >>) >>),
      L(<< S("x") >>),
      L(<<>>),
      D(<<>>),
      None,
      D(<< <<"results", L(<< D(<< <<"lexicalEntries",
              L(<< D(<< <<"sentences", L(<< D(<< <<"text", S("a sentence")>> >>), D(<<>>) >>)>>,
                        <<"entries", L(<< D(<< <<"senses",
                            L(<< D(<< <<"definitions", L(<< S("a sense") >>)>> >>) >>)>> >>) >>)>> >>) >>)>> >>) >>)>> >>),
      D(<< <<"results", L(<<>>)>> >>),
      D(<< <<"results", None>> >>),
      D(<< <<"error", S("x")>> >>),
      D(<< <<"meanings", None>> >>),
      D(<< <<"meanings", L(<< S("x") >>)>> >>) }

Bodies == BasicBodies \cup OtherBodies

-----------------------------------------------------------------------------
(* Dictionary.                                                             *)

\* A url template: its name and the replacement fields it holds.
Template(name, fields) == [template |-> name, fields |-> fields]
NoTemplate == Template("None", {})

\* Mutant of get_urls: the closing `else: raise ValueError` left out.
get_urls_no_raise(id) ==
    Ok([k \in {"definitions", "examples"} |->
            IF id = "wordnet" THEN NoTemplate ELSE Template(id, {"word"})])

\* Dictionary._get_urls
get_urls(id) ==
    CASE id = "dictionaryapi" ->
            Ok([k \in {"definitions", "examples"} |->
                    Template("dictionaryapi/entries", {"source_lang", "word"})])
      [] id = "oxford" ->
            Ok([k \in {"definitions", "examples"} |->
                    IF k = "definitions"
                    THEN Template("oxford/entries", {"source_lang", "word_id"})
                    ELSE Template("oxford/sentences", {"source_lang", "word_id"})])
      [] id = "wordnik" ->
            Ok([k \in {"definitions", "examples"} |->
                    Template("wordnik/definitions", {"word", "api_key"})])
      [] id = "wordnet" ->
            Ok([k \in {"definitions", "examples"} |-> NoTemplate])
      [] OTHER -> Raise("ValueError")

\* template.format(word=word, api_key=self.api_key, source_lang=self.source_lang)
Format(tpl, word) ==
    IF tpl = NoTemplate THEN Raise("AttributeError")
    ELSE IF tpl.fields \subseteq {"word", "api_key", "source_lang"}
    THEN Ok([template |-> tpl.template, word |-> word])
    ELSE Raise("KeyError")

NoUrls == [k \in {} |-> NoTemplate]
NoCall == [op |-> "none", word |-> ""]
NoUrl == [template |-> "", word |-> ""]
NoRet == [exc |-> "none", val |-> None]

InitOracle ==
    /\ phase = "new"
    /\ ctor_arg = ""
    /\ ctor_exc = "none"
    /\ dictionary_id = ""
    /\ urls = NoUrls
    /\ pc = "idle"
    /\ call = NoCall
    /\ synsets = <<>>
    /\ url = NoUrl
    /\ status = 0
    /\ response = None
    /\ ret = NoRet
    /\ nreq = 0

\* No embedder is at work under Spec.
EmbedderOff ==
    /\ sentence = <<>>
    /\ target = <<>>
    /\ layer = 0
    /\ avg_layers = FALSE
    /\ word_ids = <<>>
    /\ numpy = "unused"
    /\ epc = "off"
    /\ idx = 0
    /\ token_ids_word = <<>>
    /\ nfwd = 0
    /\ eret = NoRet

Init == InitOracle /\ EmbedderOff

\* Dictionary.__init__
Dictionary_init(id) ==
    /\ phase = "new"
    /\ ctor_arg' = id
    /\ LET u == get_urls(id)
       IN  IF u.exc = "none"
           THEN /\ phase' = "ready"
                /\ dictionary_id' = id
                /\ urls' = u.val
                /\ ctor_exc' = "none"
           ELSE /\ phase' = "failed"
                /\ ctor_exc' = u.exc
                /\ UNCHANGED <<dictionary_id, urls>>
    /\ UNCHANGED <<pc, call, synsets, url, status, response, ret, nreq>>
    /\ UNCHANGED embedVars

\* A query runs to its end without a request.
Finish(op, word, ss, r) ==
    /\ call' = [op |-> op, word |-> word]
    /\ synsets' = ss
    /\ ret' = r
    /\ pc' = "returned"
    /\ UNCHANGED <<url, status, response, nreq>>

\* self.urls[key].format(...), then the call of _make_request
Request(op, word, key) ==
    LET formatted == IF key \in DOMAIN urls
                     THEN Format(urls[key], word)
                     ELSE Raise("KeyError")
    IN  IF formatted.exc = "none"
        THEN /\ call' = [op |-> op, word |-> word]
             /\ url' = formatted.val
             /\ pc' = "request"
             /\ UNCHANGED <<synsets, status, response, ret, nreq>>
        ELSE Finish(op, word, <<>>, formatted)

CanCall == phase = "ready" /\ pc = "idle"
Frame ==
    /\ UNCHANGED <<phase, ctor_arg, ctor_exc, dictionary_id, urls>>
    /\ UNCHANGED embedVars

\* Dictionary.get_examples, up to its request
get_examples(word) ==
    /\ CanCall
    /\ IF dictionary_id = "wordnet"
       THEN \E ss \in SynsetLists : Finish("examples", word, ss, WordnetExamples(ss))
       ELSE Request("examples", word, "examples")
    /\ Frame

\* Dictionary.get_definitions, up to its request
get_definitions(word) ==
    /\ CanCall
    /\ IF dictionary_id = "wordnet"
       THEN \E ss \in SynsetLists : Finish("definitions", word, ss, WordnetDefinitions(ss))
       ELSE Request("definitions", word, "definitions")
    /\ Frame

\* Dictionary.get_synonyms, up to its request
get_synonyms(word) ==
    /\ CanCall
    /\ IF dictionary_id = "wordnet"
       THEN \E ss \in SynsetLists : Finish("synonyms", word, ss, WordnetSynonyms(ss, word))
       ELSE Request("synonyms", word, "synonyms")
    /\ Frame

\* Mutant of get_antonyms: the commented-out lookup of self.urls['antonyms']
\* put back.
get_antonyms_with_url(word) ==
    /\ CanCall
    /\ IF dictionary_id = "wordnet"
       THEN \E ss \in SynsetLists :
               Finish("antonyms", word, ss, Antonyms(dictionary_id, ss))
       ELSE Request("antonyms", word, "antonyms")
    /\ Frame

\* Dictionary.get_antonyms
get_antonyms(word) ==
    /\ CanCall
    /\ \E ss \in (IF dictionary_id = "wordnet" THEN SynsetLists ELSE {<<>>}) :
          Finish("antonyms", word, ss, Antonyms(dictionary_id, ss))
    /\ Frame

\* Mutant of make_request: a non-200 answer is asked for again, twice at most.
make_request_retry ==
    /\ pc = "request"
    /\ \E st \in Statuses :
       \E body \in (IF st = 200 THEN Bodies ELSE {None}) :
          /\ nreq' = nreq + 1
          /\ status' = st
          /\ response' = IF st = 200 THEN body ELSE None
          /\ pc' = IF st = 200 \/ nreq >= 2 THEN "response" ELSE "request"
          /\ ret' = ret
    /\ UNCHANGED <<call, synsets, url>>
    /\ Frame

\* Dictionary._make_request: one requests.get, whose answer is the backend's
make_request ==
    /\ pc = "request"
    /\ IF dictionary_id = "wordnet"
       THEN /\ ret' = Raise("KeyError")
            /\ pc' = "returned"
            /\ UNCHANGED <<status, response, nreq>>
       ELSE \E st \in Statuses :
            \E body \in (IF st = 200 THEN Bodies ELSE {None}) :
               /\ nreq' = nreq + 1
               /\ status' = st
               /\ response' = IF st = 200 THEN body ELSE None
               /\ pc' = "response"
               /\ ret' = ret
    /\ UNCHANGED <<call, synsets, url>>
    /\ Frame

\* get_examples after `response = self._make_request(url)`
ExamplesOf(id, resp) ==
    IF resp = None THEN Ok(L(<<>>))
    ELSE CASE id = "oxford" -> ParseOxfordExamples(resp)
           [] id = "dictionaryapi" -> ParseDictionaryApi("examples", resp)
           [] id = "wordnik" -> ParseWordnikExamples(resp)
           [] OTHER -> Raise("ValueError")

\* get_definitions after `response = self._make_request(url)`
DefinitionsOf(id, resp) ==
    IF resp = None THEN Ok(L(<<>>))
    ELSE CASE id = "dictionaryapi" -> ParseDictionaryApi("definitions", resp)
           [] id = "oxford" -> ParseOxfordDefinitions(resp)
           [] id = "wordnik" -> ParseWordnikDefinitions(resp)
           [] OTHER -> Ok(L(<<>>))

\* The rest of the query that made the request.
handle_response ==
    /\ pc = "response"
    /\ ret' = CASE call.op = "examples" -> ExamplesOf(dictionary_id, response)
                [] call.op = "definitions" -> DefinitionsOf(dictionary_id, response)
                [] OTHER -> ParseSynonyms(dictionary_id, response)
    /\ pc' = "returned"
    /\ UNCHANGED <<call, synsets, url, status, response, nreq>>
    /\ Frame

\* The caller takes the result (or the exception); the oracle keeps nothing
\* of the query.
return ==
    /\ pc = "returned"
    /\ pc' = "idle"
    /\ call' = NoCall
    /\ synsets' = <<>>
    /\ url' = NoUrl
    /\ status' = 0
    /\ response' = None
    /\ ret' = NoRet
    /\ nreq' = 0
    /\ Frame

Next ==
    \/ \E id \in BackendIds : Dictionary_init(id)
    \/ \E w \in Words : get_examples(w)
    \/ \E w \in Words : get_definitions(w)
    \/ \E w \in Words : get_synonyms(w)
    \/ \E w \in Words : get_antonyms(w)
    \/ make_request
    \/ handle_response
    \/ return

Spec == Init /\ [][Next]_vars

-----------------------------------------------------------------------------
(* ALBERTWordEmbeddings.  A string is a sequence of characters; the        *)
(* encoder is the capability the class is built on: a tokenizer giving     *)
(* word_ids and a model giving one hidden vector per layer and position    *)
(* (a vector is modelled by one integer component).                        *)

MaxLen == 3         \* characters of a sentence
MaxSub == 2         \* subtokens the tokenizer cuts one word into
NumStates == 3      \* hidden states the model returns (embedding layer included)

Chars == {"a", "A", " "}
Sentences == SeqsUpTo(Chars, MaxLen)
TargetWords == SeqsUpTo(Chars, 2)
Layers == 0..(NumStates + 1)

I(n) == [t |-> "int", v |-> n]

\* str.split(" ")
RECURSIVE Split(_)
Split(s) ==
    IF \A i \in 1..Len(s) : s[i] # " "
    THEN <<s>>
    ELSE LET i == CHOOSE k \in 1..Len(s) :
                     s[k] = " " /\ \A j \in 1..(k - 1) : s[j] # " "
         IN  <<SubSeq(s, 1, i - 1)>> \o Split(SubSeq(s, i + 1, Len(s)))

\* Mutant of ListIndex: -1 for a missing x, as str.find gives.
ListIndex_find(tokens, x) ==
    IF \E i \in 1..Len(tokens) : tokens[i] = x
    THEN Ok((CHOOSE i \in 1..Len(tokens) :
                tokens[i] = x /\ \A j \in 1..(i - 1) : tokens[j] # x) - 1)
    ELSE Ok(-1)

\* list.index(x): the first position (from 0) holding x, ValueError if none
ListIndex(tokens, x) ==
    IF \E i \in 1..Len(tokens) : tokens[i] = x
    THEN Ok((CHOOSE i \in 1..Len(tokens) :
                tokens[i] = x /\ \A j \in 1..(i - 1) : tokens[j] # x) - 1)
    ELSE Raise("ValueError")

\* The word_ids a fast tokenizer may give for a sentence: None for [CLS],
\* then for each word in turn its index once per subtoken, then None for
\* [SEP].  The words are the non-empty pieces between spaces.
RECURSIVE Repeat(_, _)
Repeat(x, n) == IF n = 0 THEN <<>> ELSE <<x>> \o Repeat(x, n - 1)

RECURSIVE Expand(_, _)
Expand(counts, w) ==
    IF w > Len(counts) THEN <<>>
    ELSE Repeat(I(w - 1), counts[w]) \o Expand(counts, w + 1)

NumWords(s) == Len(SelectSeq(Split(s), LAMBDA tok : tok # <<>>))

WordIdsOf(s) ==
    { <<None>> \o Expand(counts, 1) \o <<None>> :
        counts \in [1..NumWords(s) -> 1..MaxSub] }

\* np.where(c) for a Python bool c, a 0-d array to numpy: nonzero() of a 0-d
\* array is deprecated, and taken as 1-d, by older numpy and an error in
\* newer numpy.
NpWhere(c, version) ==
    IF version = "new" THEN Raise("ValueError")
    ELSE Ok(IF c THEN <<0>> ELSE <<>>)

\* the condition handed to np.where: encoded.word_ids()[0] == idx
WhereCondition(wids, i) == wids[1] = I(i)

\* the model's hidden state of layer l (1..NumStates) at position p (from 0)
Hidden(l, p) == (7 * l * l + 3 * p * p + 5 * l * p + 1) % 13

RECURSIVE SumSeq(_)
SumSeq(q) == IF q = <<>> THEN 0 ELSE Head(q) + SumSeq(Tail(q))

\* tensor.mean(dim=0) over the rows pooled; no rows (n = 0) gives nan
Mean(pool) == [sum |-> SumSeq(pool), n |-> Len(pool)]

\* output[token_ids_word], the rows of one layer
Rows(l, positions) == [i \in 1..Len(positions) |-> Hidden(l, positions[i])]

\* states[-self.layer][0]: the layer picked (1..NumStates), IndexError outside
SingleLayer(k) ==
    IF k = 0 THEN Ok(1)
    ELSE IF k <= NumStates THEN Ok(NumStates - k + 1)
    ELSE Raise("IndexError")

\* states[-self.layer:]: the layers picked, in order
LastLayers(k) ==
    IF k = 0 \/ k >= NumStates
    THEN [i \in 1..NumStates |-> i]
    ELSE [i \in 1..k |-> NumStates - k + i]

\* torch.cat([output[0][token_ids_word] for output in embeddings_to_average])
RECURSIVE Pool(_, _)
Pool(ls, positions) ==
    IF ls = <<>> THEN <<>>
    ELSE Rows(Head(ls), positions) \o Pool(Tail(ls), positions)

\* get_word_embedding from `if self.avg_layers:` on
Embedding(avg, k, positions) ==
    IF avg
    THEN Ok(Mean(Pool(LastLayers(k), positions)))
    ELSE Bind(SingleLayer(k), LAMBDA l : Ok(Mean(Rows(l, positions))))

InitEmbed ==
    /\ InitOracle
    /\ sentence \in Sentences
    /\ target \in TargetWords
    /\ layer \in Layers
    /\ avg_layers \in BOOLEAN
    /\ word_ids = <<>>
    /\ numpy = "unused"
    /\ epc = "called"
    /\ idx = 0
    /\ token_ids_word = <<>>
    /\ nfwd = 0
    /\ eret = NoRet

EmbedDone(r) ==
    /\ eret' = r
    /\ epc' = "done"

\* get_word_embedding up to `states = self.get_hidden_states(encoded)`
get_word_embedding ==
    /\ epc = "called"
    /\ LET found == ListIndex(Split(sentence), target)
       IN  IF found.exc # "none"
           THEN /\ EmbedDone(found)
                /\ UNCHANGED <<word_ids, numpy, idx, token_ids_word>>
           ELSE IF found.val = -1
           THEN /\ EmbedDone(Ok(None))
                /\ idx' = found.val
                /\ UNCHANGED <<word_ids, numpy, token_ids_word>>
           ELSE \E wids \in WordIdsOf(sentence), version \in {"old", "new"} :
                   LET where == NpWhere(WhereCondition(wids, found.val), version)
                   IN  /\ idx' = found.val
                       /\ word_ids' = wids
                       /\ numpy' = version
                       /\ IF where.exc # "none"
                          THEN /\ EmbedDone(where)
                               /\ UNCHANGED token_ids_word
                          ELSE /\ token_ids_word' = where.val
                               /\ epc' = "encoded"
                               /\ UNCHANGED eret
    /\ UNCHANGED <<sentence, target, layer, avg_layers, nfwd>>
    /\ UNCHANGED oracleVars

\* get_hidden_states: one forward pass of the model
get_hidden_states ==
    /\ epc = "encoded"
    /\ nfwd' = nfwd + 1
    /\ epc' = "states"
    /\ UNCHANGED <<sentence, target, layer, avg_layers, word_ids, numpy, idx,
                   token_ids_word, eret>>
    /\ UNCHANGED oracleVars

\* get_word_embedding from `if self.avg_layers:` to its return
aggregate ==
    /\ epc = "states"
    /\ EmbedDone(Embedding(avg_layers, layer, token_ids_word))
    /\ UNCHANGED <<sentence, target, layer, avg_layers, word_ids, numpy, idx,
                   token_ids_word, nfwd>>
    /\ UNCHANGED oracleVars

NextEmbed ==
    \/ get_word_embedding
    \/ get_hidden_states
    \/ aggregate

SpecEmbed == InitEmbed /\ [][NextEmbed]_vars

-----------------------------------------------------------------------------
(* The claims.                                                             *)

\* A no-data result: None or an empty list.
NoData(v) == v = None \/ (v.t = "list" /\ v.v = <<>>)

ParseErrors == {"KeyError", "IndexError", "AttributeError", "TypeError"}

\* C1: a Dictionary built with an identifier outside {dictionaryapi, oxford,
\* wordnik, wordnet} raises in the constructor, leaves no object, and so no
\* query and no request is ever made for it; an identifier inside the set
\* gives an object holding it.
C1_UnknownBackendFailsAtConstruction ==
    /\ (phase # "new" /\ ctor_arg \notin SupportedIds) =>
          /\ phase = "failed"
          /\ ctor_exc = "ValueError"
          /\ pc = "idle" /\ call = NoCall /\ nreq = 0
    /\ (phase # "new" /\ ctor_arg \in SupportedIds) =>
          /\ phase = "ready"
          /\ ctor_exc = "none"
          /\ dictionary_id = ctor_arg
    /\ (pc # "idle" \/ nreq > 0) =>
          phase = "ready" /\ dictionary_id \in SupportedIds

C1_Witness ==
    phase = "failed" /\ ctor_arg = "merriam" /\ ctor_exc = "ValueError"

\* C2: on a remote backend, a query whose backend answers no request with a
\* 200 (status is 0 when the query made no request) returns a no-data
\* result and raises nothing, whichever of the four queries it is.
C2_Non200GivesEmptyNeverRaises ==
    (pc = "returned" /\ dictionary_id \in RemoteIds /\ status # 200) =>
        ret.exc = "none" /\ NoData(ret.val)

\* Is target one of the pieces of sentence between single spaces: it holds no
\* space and lies in sentence from a to b with a space, or an end of the
\* sentence, on each side.
IsToken ==
    /\ \A i \in 1..Len(target) : target[i] # " "
    /\ \E a \in 1..(Len(sentence) + 1) :
          LET b == a + Len(target) - 1
          IN  /\ b <= Len(sentence)
              /\ SubSeq(sentence, a, b) = target
              /\ (a = 1 \/ sentence[a - 1] = " ")
              /\ (b = Len(sentence) \/ sentence[b + 1] = " ")

\* C3: when the word is not one of the sentence's pieces between single
\* spaces (compared case-sensitively), get_word_embedding ends in an
\* error, returns no vector and no None, and runs no forward pass.
C3_AbsentWordRaisesBeforeForward ==
    (epc # "off" /\ ~IsToken) =>
        /\ nfwd = 0
        /\ epc \in {"called", "done"}
        /\ (epc = "done" => eret.exc = "ValueError")

C3_Witness ==
    /\ epc = "done"
    /\ sentence = <<"a", " ", "A">>
    /\ target = <<"a", " ">>
    /\ eret.exc = "ValueError"
    /\ nfwd = 0

\* How often the word is a piece of the sentence.
Occurrences ==
    Cardinality({i \in 1..Len(Split(sentence)) : Split(sentence)[i] = target})

\* The subtoken positions (from 0) whose word index is the target's.
Aligned == {p \in 0..(Len(word_ids) - 1) : word_ids[p + 1] = I(idx)}

RECURSIVE SumOver(_, _)
SumOver(ls, ps) ==
    IF ls = {} \/ ps = {} THEN 0
    ELSE LET l == CHOOSE x \in ls : TRUE
             p == CHOOSE x \in ps : TRUE
         IN  Hidden(l, p) + SumOver({l}, ps \ {p}) + SumOver(ls \ {l}, ps)

\* The mean of the hidden vectors of layers ls at positions ps.
MeanOver(ls, ps) ==
    [sum |-> SumOver(ls, ps), n |-> Cardinality(ls) * Cardinality(ps)]

SameMean(m1, m2) == m1.n > 0 /\ m2.n > 0 /\ m1.sum * m2.n = m2.sum * m1.n

\* C4: for a word that occurs once, with avg_layers false and layer 1, the
\* call returns the mean of the last layer's vectors at exactly the
\* positions aligned to the word.
C4_SingleLayerMeanOverAligned ==
    (epc = "done" /\ Occurrences = 1 /\ ~avg_layers /\ layer = 1 /\ Aligned # {}) =>
        /\ eret.exc = "none"
        /\ SameMean(eret.val, MeanOver({NumStates}, Aligned))

\* C5: with avg_layers true and layer k in 1..NumStates, the call returns
\* the mean over one pool of the vectors of the last k layers at the
\* aligned positions, the positions used being the aligned ones whatever k.
C5_FlatMeanOverLastLayers ==
    (epc = "done" /\ Occurrences = 1 /\ avg_layers /\ layer \in 1..NumStates
       /\ Aligned # {}) =>
        /\ eret.exc = "none"
        /\ {token_ids_word[i] : i \in 1..Len(token_ids_word)} = Aligned
        /\ SameMean(eret.val, MeanOver((NumStates - layer + 1)..NumStates, Aligned))

\* What get_definitions is to give for the synsets ss: [definition] of each
\* synset that has an example, in order.
ExpectedDefinitions(ss) ==
    LET kept == SelectSeq(ss, LAMBDA x : x.examples # <<>>)
    IN  L([i \in 1..Len(kept) |-> L(<<S(kept[i].definition)>>)])

\* C6: on wordnet, get_definitions returns [definition] of exactly the
\* synsets with a non-empty example list, in order, and get_examples one
\* entry per synset in order, empty lists included; two synsets of which
\* one has no example give 1 definition entry and 2 example entries.
C6_WordnetDefinitionsFilteredExamplesNot ==
    (pc = "returned" /\ dictionary_id = "wordnet") =>
        /\ call.op = "definitions" =>
              /\ ret = Ok(ExpectedDefinitions(synsets))
              /\ (Len(synsets) = 2
                    /\ Cardinality({i \in 1..2 : synsets[i].examples = <<>>}) = 1)
                 => Len(ret.val.v) = 1
        /\ call.op = "examples" =>
              /\ ret.exc = "none"
              /\ ret.val.t = "list"
              /\ Len(ret.val.v) = Len(synsets)
              /\ \A i \in 1..Len(synsets) :
                    ret.val.v[i] =
                        L([j \in 1..Len(synsets[i].examples) |->
                              S(synsets[i].examples[j])])

C6_Witness ==
    /\ pc = "returned" /\ dictionary_id = "wordnet"
    /\ call.op = "definitions"
    /\ Len(synsets) = 2
    /\ synsets[1].examples = <<>>
    /\ synsets[2].examples # <<>>
    /\ ret = Ok(L(<<L(<<S(synsets[2].definition)>>)>>))

\* The definitions[] entries of a remote-basic body, in response order.
RECURSIVE DefinitionsUnder(_)
DefinitionsUnder(meanings) ==
    IF meanings = <<>> THEN <<>>
    ELSE Lookup(Head(meanings), "definitions").v \o DefinitionsUnder(Tail(meanings))

EntriesOf(body) == IF body.t = "list" THEN body.v ELSE <<body>>

\* a definitions[] entry carries an example: it has a non-empty one
Carries(d) == HasKey(d, "example") /\ Lookup(d, "example") # S("")

RECURSIVE DefinitionsOfEntries(_)
DefinitionsOfEntries(entries) ==
    IF entries = <<>> THEN <<>>
    ELSE DefinitionsUnder(Lookup(Head(entries), "meanings").v)
         \o DefinitionsOfEntries(Tail(entries))

WithExample(body) == SelectSeq(DefinitionsOfEntries(EntriesOf(body)), Carries)

\* C7: on dictionaryapi with a 200, each definitions[] entry under
\* meanings[] that carries an example gives, in response order, [its
\* definition] to get_definitions and its example to get_examples; the body
\* of the spec gives [["a domestic animal"]] and ["the dog barked"], as one
\* object or in a list.
C7_RemoteBasicDefinitionsAndExamples ==
    (pc = "returned" /\ dictionary_id = "dictionaryapi" /\ status = 200
       /\ response \in BasicBodies) =>
        LET ds == WithExample(response)
        IN  /\ call.op = "definitions" =>
                 ret = Ok(L([i \in 1..Len(ds) |->
                               L(<<IF HasKey(ds[i], "definition")
                                   THEN Lookup(ds[i], "definition") ELSE None>>)]))
            /\ call.op = "examples" =>
                 ret = Ok(L([i \in 1..Len(ds) |-> Lookup(ds[i], "example")]))
            /\ response \in {SpecBody, L(<<SpecBody>>)} =>
                 /\ call.op = "definitions" =>
                       ret = Ok(L(<<L(<<S("a domestic animal")>>)>>))
                 /\ call.op = "examples" =>
                       ret = Ok(L(<<S("the dog barked")>>))

C7_Witness ==
    /\ pc = "returned" /\ dictionary_id = "dictionaryapi" /\ status = 200
    /\ response = L(<<SpecBody>>)
    /\ call = [op |-> "definitions", word |-> "dog"]
    /\ ret = Ok(L(<<L(<<S("a domestic animal")>>)>>))

\* The names of the antonyms of the lemmas of the synsets ss, in order.
RECURSIVE AntonymsOfLemmas(_)
AntonymsOfLemmas(lemmas) ==
    IF lemmas = <<>> THEN <<>>
    ELSE [i \in 1..Len(Head(lemmas).antonyms) |-> S(Head(lemmas).antonyms[i])]
         \o AntonymsOfLemmas(Tail(lemmas))

RECURSIVE AntonymsOfSynsets(_)
AntonymsOfSynsets(ss) ==
    IF ss = <<>> THEN <<>>
    ELSE AntonymsOfLemmas(Head(ss).lemmas) \o AntonymsOfSynsets(Tail(ss))

\* C8: on every remote backend get_antonyms returns no data and makes no
\* request; a non-empty antonym list comes from wordnet alone and is the
\* names of the antonym lemmas linked from the lemmas of the word's synsets.
C8_RemoteAntonymsStubbed ==
    call.op = "antonyms" =>
        /\ pc = "returned"
        /\ ret.exc = "none"
        /\ dictionary_id \in RemoteIds =>
              ret.val = None /\ nreq = 0 /\ status = 0
        /\ ~NoData(ret.val) =>
              dictionary_id = "wordnet" /\ ret.val = L(AntonymsOfSynsets(synsets))
        /\ (dictionary_id = "wordnet" /\ AntonymsOfSynsets(synsets) # <<>>) =>
              ret.val = L(AntonymsOfSynsets(synsets))

C8_Witness ==
    /\ pc = "returned" /\ call.op = "antonyms"
    /\ dictionary_id = "wordnik"
    /\ ret = Ok(None) /\ nreq = 0

\* C9: on a remote backend, a 200 whose body is malformed or lacks the keys
\* the parser reads lets no parse error reach the caller; the query
\* returns an empty result.
C9_MalformedBodyGivesEmpty ==
    (pc = "returned" /\ dictionary_id \in RemoteIds /\ status = 200) =>
        /\ ret.exc \notin ParseErrors
        /\ (dictionary_id = "wordnik" /\ call.op = "examples"
              /\ response = L(<<D(<< <<"text", S("a def")>> >>)>>))
           => NoData(ret.val)

\* C10: a query makes at most one request, and none on wordnet; once its
\* response is in, the query makes no further request (a non-200 is not
\* retried) and its next step is its return.
C10_AtMostOneRequestPerQuery ==
    /\ [](/\ nreq <= 1
          /\ dictionary_id = "wordnet" => nreq = 0 /\ pc \notin {"request", "response"}
          /\ pc = "response" => nreq = 1)
    /\ [][pc = "response" => pc' = "returned" /\ nreq' = nreq]_vars
    /\ [][nreq' > nreq => pc = "request" /\ nreq = 0 /\ pc' = "response"]_vars

C10_Witness ==
    /\ pc = "returned" /\ nreq = 1 /\ status = 404
    /\ call.op = "examples"
    /\ ret = Ok(L(<<>>))

====
